---- MODULE Spec2Model ----
(***************************************************************************)
(* Vision-Tracker: the centroid tracker of src/utils/mathUtils.ts and the  *)
(* processing loop of src/components/VisionCanvas.tsx that drives it.      *)
(*                                                                         *)
(* Numbers.  Box coordinates are integers on the detector's 0..1000 scale. *)
(* A Point's coordinates are stored multiplied by Scale (= 2), so that the *)
(* midpoint (a + b) / 2 of two integers is stored exactly, as a + b.       *)
(* Every Point of the model (a box centre, a trajectory point, an ROI      *)
(* vertex) is in these half units.  Distances are compared by              *)
(* their squares, which orders them exactly as Math.sqrt does.             *)
(* Every number the detector or the user supplies is in 0..1000.           *)
(* `undefined` (a read past the end of an array) is a number far below 0,  *)
(* so that a midpoint computed with it is below 0: a coordinate below 0    *)
(* stands for NaN.  A distance is at most 3000; Infinity is a number far   *)
(* above that, and the distance NaN is above Infinity, since NaN < x is    *)
(* false for every x.                                                      *)
(***************************************************************************)
EXTENDS Integers, Sequences, FiniteSets, TLC

\* ------------------------------------------------------------------ numbers

Scale == 2

MAX_TRAJECTORY_LENGTH == 30
MAX_DROPOUT_FRAMES == 5
MATCH_THRESHOLD == 150
processingInterval == 200

\* `let minDistance = Infinity`: a value no distance reaches.
Infinity == 1000000000

\* What reading past the end of an array yields, and the distance computed
\* from a coordinate that is NaN.
undefined == -1000000
NaN == Infinity + 1

Pt(x, y) == [x |-> Scale * x, y |-> Scale * y]

\* ---------------------------------------------------------------- geometry

\* One edge (i, j) of the ray-casting loop: does the ray from `point` towards
\* +x cross it?  The code's  point.x < (xj - xi) * (point.y - yi) / (yj - yi) + xi
\* is evaluated only when yi # yj (the first conjunct), and is multiplied
\* through by (yj - yi), whose sign turns the comparison.
\* Every comparison with NaN is false, which makes both conjuncts false.
intersect(point, pi, pj) ==
  /\ point.x >= 0 /\ point.y >= 0
  /\ (pi.y > point.y) # (pj.y > point.y)
  /\ IF pj.y - pi.y > 0
       THEN (point.x - pi.x) * (pj.y - pi.y) < (pj.x - pi.x) * (point.y - pi.y)
       ELSE (point.x - pi.x) * (pj.y - pi.y) > (pj.x - pi.x) * (point.y - pi.y)

\* The loop `for (i = 0, j = length - 1; i < length; j = i++)`, 1-based:
\* the state after the iterations i .. Len(polygon), entered with `inside`.
RECURSIVE rayCast(_, _, _, _, _)
rayCast(point, polygon, i, j, inside) ==
  IF i > Len(polygon) THEN inside
  ELSE rayCast(point, polygon, i + 1, i,
               IF intersect(point, polygon[i], polygon[j]) THEN ~inside ELSE inside)

isPointInPolygonOpen(point, polygon) ==
  rayCast(point, polygon, 2, 1, FALSE)

isPointInPolygon(point, polygon) ==
  rayCast(point, polygon, 1, Len(polygon), FALSE)

\* (a + b) / 2 in half units; below 0, so NaN, when a or b is undefined.
getBoxCenter(box) ==
  [x |-> ((box.xmin + box.xmax) * Scale) \div 2,
   y |-> ((box.ymin + box.ymax) * Scale) \div 2]

\* The square of getDistance (in half units); NaN when a coordinate is NaN.
getDistanceSq(p1, p2) ==
  IF p1.x < 0 \/ p1.y < 0 \/ p2.x < 0 \/ p2.y < 0
    THEN NaN
    ELSE (p1.x - p2.x) * (p1.x - p2.x) + (p1.y - p2.y) * (p1.y - p2.y)

\* distance < MATCH_THRESHOLD
underThreshold(distSq) ==
  distSq < (Scale * MATCH_THRESHOLD) * (Scale * MATCH_THRESHOLD)

lessThanMinFirst(distSq, minDistSq) ==
  minDistSq = Infinity

\* distance < minDistance
lessThanMin(distSq, minDistSq) ==
  distSq < minDistSq

\* `[ymin, xmin, ymax, xmax]` to BoundingBox: box_2d[i] is undefined past the
\* end of the array, and elements past the fourth are not read.
toBox(box_2d) ==
  LET padded == box_2d \o <<undefined, undefined, undefined, undefined>>
  IN [ymin |-> padded[1], xmin |-> padded[2], ymax |-> padded[3], xmax |-> padded[4]]

\* ----------------------------------------------------------------- tracker

colors == <<"#00f3ff", "#00ff9d", "#ff0055", "#ffcc00", "#bd00ff", "#ffffff">>

\* Math.floor(Math.random() * colors.length), 1-based, for the draw r.
getRandomColor(r) == colors[r]

sameLabelAny(detection, track) == TRUE

\* detection.label === track.label
sameLabel(detection, track) == detection.label = track.label

\* The forEach over unmatchedDetections for one track: the state
\* [bestMatchIndex, minDistance] after the detections index .. Len.
\* bestMatchIndex is 1-based, 0 for the code's -1.
RECURSIVE scanDetections(_, _, _, _)
scanDetections(track, unmatched, index, acc) ==
  IF index > Len(unmatched) THEN acc
  ELSE LET detection == unmatched[index]
           distSq == getDistanceSq(getBoxCenter(track.box),
                                   getBoxCenter(toBox(detection.box_2d)))
       IN scanDetections(track, unmatched, index + 1,
            IF /\ underThreshold(distSq)
               /\ lessThanMin(distSq, acc.minDistance)
               /\ sameLabel(detection, track)
              THEN [bestMatchIndex |-> index, minDistance |-> distSq]
              ELSE acc)

bestMatch(track, unmatched) ==
  scanDetections(track, unmatched, 1,
                 [bestMatchIndex |-> 0, minDistance |-> Infinity]).bestMatchIndex

pushTrajectoryPop(trajectory, newCenter) ==
  LET newTrajectory == Append(trajectory, newCenter)
  IN IF Len(newTrajectory) > MAX_TRAJECTORY_LENGTH
       THEN SubSeq(newTrajectory, 1, Len(newTrajectory) - 1) ELSE newTrajectory

\* newTrajectory: append, then shift() when over the cap.
pushTrajectory(trajectory, newCenter) ==
  LET newTrajectory == Append(trajectory, newCenter)
  IN IF Len(newTrajectory) > MAX_TRAJECTORY_LENGTH
       THEN Tail(newTrajectory) ELSE newTrajectory

matchedTrackKeepsBox(track, match, timestamp) ==
  [track EXCEPT !.trajectory = pushTrajectory(track.trajectory,
                                              getBoxCenter(toBox(match.box_2d))),
                !.lastSeen = timestamp]

matchedTrackKeepsLastSeen(track, match, timestamp) ==
  [track EXCEPT !.box = toBox(match.box_2d),
                !.trajectory = pushTrajectory(track.trajectory,
                                              getBoxCenter(toBox(match.box_2d)))]

\* The track pushed for a match.
matchedTrack(track, match, timestamp) ==
  [track EXCEPT !.box = toBox(match.box_2d),
                !.trajectory = pushTrajectory(track.trajectory,
                                              getBoxCenter(toBox(match.box_2d))),
                !.lastSeen = timestamp]

withinDropoutNever(track, timestamp) == FALSE

withinDropoutInclusive(track, timestamp) ==
  timestamp - track.lastSeen <= MAX_DROPOUT_FRAMES * 1000

\* An unmatched track is kept while this holds.
withinDropout(track, timestamp) ==
  timestamp - track.lastSeen < MAX_DROPOUT_FRAMES * 1000

spliceNothing(s, index) == s

\* splice(index, 1)
splice(s, index) ==
  SubSeq(s, 1, index - 1) \o SubSeq(s, index + 1, Len(s))

RECURSIVE matchTracksBackwards(_, _, _, _)
matchTracksBackwards(currentTracks, k, timestamp, st) ==
  IF k > Len(currentTracks) THEN st
  ELSE LET place == Len(currentTracks) + 1 - k
           track == currentTracks[place]
           bestMatchIndex == bestMatch(track, st.unmatchedDetections)
       IN matchTracksBackwards(currentTracks, k + 1, timestamp,
            IF bestMatchIndex # 0
              THEN [updatedTracks |->
                      Append(st.updatedTracks,
                             matchedTrack(track, st.unmatchedDetections[bestMatchIndex],
                                          timestamp)),
                    unmatchedDetections |-> splice(st.unmatchedDetections, bestMatchIndex),
                    origin |-> splice(st.origin, bestMatchIndex),
                    matches |-> Append(st.matches,
                                       [track |-> place, id |-> track.id,
                                        detection |-> st.origin[bestMatchIndex]])]
              ELSE IF withinDropout(track, timestamp)
                THEN [st EXCEPT !.updatedTracks = Append(st.updatedTracks, track)]
                ELSE st)

\* The matching loop over currentTracks[k ..], from the loop state st:
\*   updatedTracks, unmatchedDetections  the code's two arrays;
\*   origin    for each entry of unmatchedDetections, its index in `detections`;
\*   matches   for each match so far, the track's place in currentTracks, its
\*             id, and the matched detection's index in `detections`
\* (origin and matches only record what the loop did).
RECURSIVE matchTracks(_, _, _, _)
matchTracks(currentTracks, k, timestamp, st) ==
  IF k > Len(currentTracks) THEN st
  ELSE LET track == currentTracks[k]
           bestMatchIndex == bestMatch(track, st.unmatchedDetections)
       IN matchTracks(currentTracks, k + 1, timestamp,
            IF bestMatchIndex # 0
              THEN [updatedTracks |->
                      Append(st.updatedTracks,
                             matchedTrack(track, st.unmatchedDetections[bestMatchIndex],
                                          timestamp)),
                    unmatchedDetections |-> splice(st.unmatchedDetections, bestMatchIndex),
                    origin |-> splice(st.origin, bestMatchIndex),
                    matches |-> Append(st.matches,
                                       [track |-> k, id |-> track.id,
                                        detection |-> st.origin[bestMatchIndex]])]
              ELSE IF withinDropout(track, timestamp)
                THEN [st EXCEPT !.updatedTracks = Append(st.updatedTracks, track)]
                ELSE st)

\* The id a new track takes, the n-th of this call: nextId++.
allocId(nextId, n) == nextId + (n - 1)

nextIdAfterStuck(nextId, created) == nextId

\* nextId after a call that created `created` tracks.
nextIdAfter(nextId, created) == nextId + created

\* The track created for the n-th unmatched detection.
newTrack(detection, n, nextId, timestamp, rnd) ==
  [id |-> allocId(nextId, n),
   label |-> detection.label,
   box |-> toBox(detection.box_2d),
   trajectory |-> <<getBoxCenter(toBox(detection.box_2d))>>,
   color |-> getRandomColor(rnd[n]),
   lastSeen |-> timestamp]

updateTracksNewFirst(currentTracks, detections, timestamp, nextId, rnd) ==
  LET st == matchTracks(currentTracks, 1, timestamp,
              [updatedTracks |-> <<>>,
               unmatchedDetections |-> detections,
               origin |-> [i \in 1..Len(detections) |-> i],
               matches |-> <<>>])
      created == [n \in 1..Len(st.unmatchedDetections) |->
                    newTrack(st.unmatchedDetections[n], n, nextId, timestamp, rnd)]
  IN [updatedTracks |-> created \o st.updatedTracks,
      entered |-> 0,
      exited |-> 0,
      nextId |-> nextIdAfter(nextId, Len(st.unmatchedDetections)),
      matches |-> st.matches,
      spawned |-> st.origin]

\* updateTracks with the module variable nextId passed in and returned; rnd[n]
\* is the random draw of the n-th new track.
updateTracks(currentTracks, detections, timestamp, nextId, rnd) ==
  LET st == matchTracks(currentTracks, 1, timestamp,
              [updatedTracks |-> <<>>,
               unmatchedDetections |-> detections,
               origin |-> [i \in 1..Len(detections) |-> i],
               matches |-> <<>>])
      created == [n \in 1..Len(st.unmatchedDetections) |->
                    newTrack(st.unmatchedDetections[n], n, nextId, timestamp, rnd)]
  IN [updatedTracks |-> st.updatedTracks \o created,
      entered |-> 0,
      exited |-> 0,
      nextId |-> nextIdAfter(nextId, Len(st.unmatchedDetections)),
      matches |-> st.matches,
      spawned |-> st.origin]

\* --------------------------------------------------------- the ROI events

\* tracksRef.current.find(t => t.id === track.id): the index of the first
\* track with this id, 0 when there is none.
findTrack(oldTracks, id) ==
  IF \E k \in 1..Len(oldTracks) : oldTracks[k].id = id
    THEN CHOOSE k \in 1..Len(oldTracks) :
           /\ oldTracks[k].id = id
           /\ \A m \in 1..(k - 1) : oldTracks[m].id # id
    ELSE 0

\* The positions of updatedTracks that count as an entry.
enteredAt(updatedTracks, oldTracks, polygon) ==
  {k \in 1..Len(updatedTracks) :
     /\ findTrack(oldTracks, updatedTracks[k].id) # 0
     /\ ~isPointInPolygon(
           getBoxCenter(oldTracks[findTrack(oldTracks, updatedTracks[k].id)].box), polygon)
     /\ isPointInPolygon(getBoxCenter(updatedTracks[k].box), polygon)}

\* The positions of updatedTracks that count as an exit.
exitedAt(updatedTracks, oldTracks, polygon) ==
  {k \in 1..Len(updatedTracks) :
     /\ findTrack(oldTracks, updatedTracks[k].id) # 0
     /\ isPointInPolygon(
           getBoxCenter(oldTracks[findTrack(oldTracks, updatedTracks[k].id)].box), polygon)
     /\ ~isPointInPolygon(getBoxCenter(updatedTracks[k].box), polygon)}

roiEventsOfAllTracks(updatedTracks, oldTracks, polygon) ==
  IF Len(polygon) > 2
    THEN [entered |-> Cardinality({k \in 1..Len(updatedTracks) :
                        /\ isPointInPolygon(getBoxCenter(updatedTracks[k].box), polygon)
                        /\ \A m \in 1..Len(oldTracks) :
                             oldTracks[m].id = updatedTracks[k].id =>
                               ~isPointInPolygon(getBoxCenter(oldTracks[m].box), polygon)}),
          exited |-> Cardinality({m \in 1..Len(oldTracks) :
                       /\ isPointInPolygon(getBoxCenter(oldTracks[m].box), polygon)
                       /\ \A k \in 1..Len(updatedTracks) :
                            updatedTracks[k].id = oldTracks[m].id =>
                              ~isPointInPolygon(getBoxCenter(updatedTracks[k].box), polygon)})]
    ELSE [entered |-> 0, exited |-> 0]

roiEventsSwapped(updatedTracks, oldTracks, polygon) ==
  IF Len(polygon) > 2
    THEN [entered |-> Cardinality(exitedAt(updatedTracks, oldTracks, polygon)),
          exited |-> Cardinality(enteredAt(updatedTracks, oldTracks, polygon))]
    ELSE [entered |-> 0, exited |-> 0]

\* `if (roiPoints.length > 2) { ... }`: the tick's entered and exited.
roiEvents(updatedTracks, oldTracks, polygon) ==
  IF Len(polygon) > 2
    THEN [entered |-> Cardinality(enteredAt(updatedTracks, oldTracks, polygon)),
          exited |-> Cardinality(exitedAt(updatedTracks, oldTracks, polygon))]
    ELSE [entered |-> 0, exited |-> 0]

addCountsNet(counts, events) ==
  [entered |-> counts.entered + events.entered - events.exited,
   exited |-> counts.exited + events.exited]

\* roiCountsRef.current = { entered: ... + entered, exited: ... + exited }
addCounts(counts, events) ==
  [entered |-> counts.entered + events.entered,
   exited |-> counts.exited + events.exited]

\* What the .then callback computes from tracksRef.current, the detections,
\* the timestamp and roiPoints of its closure, roiCountsRef.current and nextId.
runTick(currentTracks, detections, timestamp, polygon, counts, nextId, rnd) ==
  LET result == updateTracks(currentTracks, detections, timestamp, nextId, rnd)
      events == roiEvents(result.updatedTracks, currentTracks, polygon)
  IN [updatedTracks |-> result.updatedTracks,
      nextId |-> result.nextId,
      counts |-> addCounts(counts, events),
      entered |-> events.entered,
      exited |-> events.exited,
      matches |-> result.matches,
      spawned |-> result.spawned]

tickSkipsWithoutRoi(currentTracks, detections, timestamp, polygon, counts, nextId, rnd) ==
  IF Len(polygon) > 2
    THEN runTick(currentTracks, detections, timestamp, polygon, counts, nextId, rnd)
    ELSE [updatedTracks |-> currentTracks, nextId |-> nextId, counts |-> counts,
          entered |-> 0, exited |-> 0, matches |-> <<>>, spawned |-> <<>>]

tick(currentTracks, detections, timestamp, polygon, counts, nextId, rnd) ==
  runTick(currentTracks, detections, timestamp, polygon, counts, nextId, rnd)

\* ------------------------------------------------------------------- state

VARIABLES
  isProcessing,     \* App: useState(false)
  stats,            \* App: the AnalyticsStats shown
  isDrawingRoi,     \* VisionCanvas: useState(false)
  roiPoints,        \* VisionCanvas: useState<Point[]>([])
  tracks,           \* VisionCanvas: useState<TrackedObject[]>([])
  tracksRef,        \* tracksRef.current
  roiCounts,        \* useState({ entered: 0, exited: 0 })
  roiCountsRef,     \* roiCountsRef.current
  lastProcessTime,  \* lastProcessTimeRef.current
  frameCount,       \* frameCountRef.current
  nextId,           \* mathUtils: let nextId = 1
  now,              \* the last performance.now() a frame read
  pending,          \* detectObjectsInFrame promises not yet settled, oldest first;
                    \* each holds what its .then callback closes over
  lastTick,         \* history: what the last .then callback did (<<>> before the first)
  missed            \* history: per track id, the ticks in a row that left it unmatched

vars == <<isProcessing, stats, isDrawingRoi, roiPoints, tracks, tracksRef, roiCounts,
          roiCountsRef, lastProcessTime, frameCount, nextId, now, pending, lastTick,
          missed>>

appVars == <<isProcessing, stats>>
roiVars == <<isDrawingRoi, roiPoints>>
trackVars == <<tracks, tracksRef, roiCounts, roiCountsRef, nextId>>
loopVars == <<lastProcessTime, frameCount, now, pending>>
histVars == <<lastTick, missed>>

Init ==
  /\ isProcessing = FALSE
  /\ stats = [fps |-> 0, totalObjects |-> 0, roiEntered |-> 0, roiExited |-> 0]
  /\ isDrawingRoi = FALSE
  /\ roiPoints = <<>>
  /\ tracks = <<>>
  /\ tracksRef = <<>>
  /\ roiCounts = [entered |-> 0, exited |-> 0]
  /\ roiCountsRef = [entered |-> 0, exited |-> 0]
  /\ lastProcessTime = 0
  /\ frameCount = 0
  /\ nextId = 1
  /\ now = 0
  /\ pending = <<>>
  /\ lastTick = <<>>
  /\ missed = <<>>

\* ----------------------------------------------------------------- actions

\* App.toggleProcessing; the canvas is mounted, so videoSource is set.
toggleProcessing ==
  /\ isProcessing' = ~isProcessing
  /\ UNCHANGED <<stats, roiVars, trackVars, loopVars, histVars>>

\* The "Edit ROI" button, rendered while not drawing.
editRoi ==
  /\ ~isDrawingRoi
  /\ isDrawingRoi' = TRUE
  /\ UNCHANGED <<appVars, roiPoints, trackVars, loopVars, histVars>>

\* The "Done" button, rendered while drawing.
doneRoi ==
  /\ isDrawingRoi
  /\ isDrawingRoi' = FALSE
  /\ UNCHANGED <<appVars, roiPoints, trackVars, loopVars, histVars>>

\* The "Clear" button, rendered while drawing.
clearRoi ==
  /\ isDrawingRoi
  /\ roiPoints' = <<>>
  /\ UNCHANGED <<appVars, isDrawingRoi, trackVars, loopVars, histVars>>

\* handleCanvasClick at the point p; a click while not drawing returns at once.
handleCanvasClick(p) ==
  /\ isDrawingRoi
  /\ roiPoints' = Append(roiPoints, p)
  /\ UNCHANGED <<appVars, isDrawingRoi, trackVars, loopVars, histVars>>

\* onStatsUpdate({ fps: 30 }) on every 30th frame.
fpsUpdate(s, count) ==
  IF count % 30 = 0 THEN [s EXCEPT !.fps = 30] ELSE s

\* One animation frame of processFrame, `elapsed` ms after the previous one.
\* The loop runs while isProcessing; the effect re-binds it on every change of
\* roiPoints, so the closure a frame runs holds the current roiPoints.
processFrame(elapsed, maxFrames, maxPending) ==
  /\ isProcessing
  /\ frameCount < maxFrames
  /\ now' = now + elapsed
  /\ IF now' - lastProcessTime > processingInterval
       THEN /\ Len(pending) < maxPending
            /\ lastProcessTime' = now'
            /\ pending' = Append(pending, [now |-> now', roiPoints |-> roiPoints])
       ELSE UNCHANGED <<lastProcessTime, pending>>
  /\ frameCount' = frameCount + 1
  /\ stats' = fpsUpdate(stats, frameCount')
  /\ UNCHANGED <<isProcessing, roiVars, trackVars, histVars>>

\* The consecutive-miss counts after a tick run on `before`.
missedAfter(before, result) ==
  LET matchedIds == {result.matches[m].id : m \in 1..Len(result.matches)}
      beforeIds == {before[k].id : k \in 1..Len(before)}
  IN [id \in 1..(result.nextId - 1) |->
        IF id \in matchedIds THEN 0
        ELSE IF id \in beforeIds /\ id \in DOMAIN missed THEN missed[id] + 1
        ELSE IF id \in DOMAIN missed THEN missed[id]
        ELSE 0]

\* The number of .then callbacks run so far.
tickCount == IF lastTick = <<>> THEN 0 ELSE lastTick[1].count

\* The .then callback of the i-th pending fetch, resolved with `detections`;
\* rnd are the Math.random draws of the tracks it creates.  setTracks asks
\* for a render, after which the effect copies tracks to tracksRef: with
\* `flush` that has happened before anything else runs (the step includes it),
\* without it the copy is the later step syncTracksRef.
onDetections(i, detections, rnd, flush) ==
  /\ i \in 1..Len(pending)
  /\ LET fetch == pending[i]
         result == tick(tracksRef, detections, fetch.now, fetch.roiPoints,
                        roiCountsRef, nextId, rnd)
     IN /\ nextId' = result.nextId
        /\ roiCountsRef' = result.counts
        /\ tracks' = result.updatedTracks
        /\ roiCounts' = roiCountsRef'
        /\ stats' = [stats EXCEPT !.totalObjects = Len(result.updatedTracks),
                                  !.roiEntered = roiCountsRef'.entered,
                                  !.roiExited = roiCountsRef'.exited]
        /\ lastTick' = <<[count |-> tickCount + 1,
                          timestamp |-> fetch.now,
                          detections |-> detections,
                          polygon |-> fetch.roiPoints,
                          before |-> tracksRef,
                          nextId |-> nextId,
                          rnd |-> rnd,
                          matches |-> result.matches,
                          spawned |-> result.spawned,
                          entered |-> result.entered,
                          exited |-> result.exited]>>
        /\ missed' = missedAfter(tracksRef, result)
        /\ tracksRef' = IF flush THEN result.updatedTracks ELSE tracksRef
  /\ pending' = splice(pending, i)
  /\ UNCHANGED <<isProcessing, roiVars, lastProcessTime, frameCount, now>>

\* useEffect(() => { tracksRef.current = tracks }, [tracks]), run after the
\* render that setTracks asked for.
syncTracksRef ==
  /\ tracksRef # tracks
  /\ tracksRef' = tracks
  /\ UNCHANGED <<appVars, roiVars, tracks, roiCounts, roiCountsRef, nextId, loopVars,
                 histVars>>

\* ------------------------------------------------------------------ inputs

\* The sequences over S of length at most n.
SeqUpTo(S, n) == UNION {[1..m -> S] : m \in 0..n}

\* Detector output: every batch of at most maxDets detections over the labels
\* and boxes given.
Batches(labels, boxes, maxDets) ==
  SeqUpTo({[label |-> l, box_2d |-> b] : l \in labels, b \in boxes}, maxDets)

\* The user draws one of `polygons`, vertex by vertex: the next click.
nextClicks(polygons) ==
  {poly[Len(roiPoints) + 1] :
     poly \in {q \in polygons : /\ Len(roiPoints) < Len(q)
                                /\ roiPoints = SubSeq(q, 1, Len(roiPoints))}}

\* How many tracks updateTracks creates: one Math.random draw is made for each.
spawnCount(currentTracks, detections, timestamp) ==
  Len(updateTracks(currentTracks, detections, timestamp, 1, [n \in 1..Len(detections) |-> 1]).spawned)

\* The steps of the processing loop and of the tracker, for the inputs `in`.
LoopNext(in) ==
  \/ toggleProcessing
  \/ \E elapsed \in in.steps : processFrame(elapsed, in.maxFrames, in.maxPending)
  \/ \E i \in 1..Len(pending), detections \in in.batches :
       \E rnd \in [1..spawnCount(tracksRef, detections, pending[i].now) -> in.draws] :
         onDetections(i, detections, rnd, FALSE)
  \/ syncTracksRef

\* The steps of the user editing the ROI.
RoiNext(in) ==
  \/ editRoi
  \/ doneRoi
  \/ clearRoi
  \/ \E p \in nextClicks(in.polygons) : handleCanvasClick(p)

\* ---------------------------------------------------------- specification

SquareRoi == <<Pt(100, 100), Pt(900, 100), Pt(900, 900), Pt(100, 900)>>

\* Boxes by their centres: A (50, 50) and F (950, 950) outside SquareRoi,
\* B (150, 140) and M (500, 500) inside it.  |AB| = 134.5, |AE| = 150 exactly,
\* |BE| = 103, and M and F are further than 150 from every other centre.
BoxA == <<0, 0, 100, 100>>
BoxB == <<90, 100, 190, 200>>
BoxE == <<0, 150, 100, 250>>
BoxM == <<450, 450, 550, 550>>
BoxF == <<900, 900, 1000, 1000>>

Det(label, box_2d) == [label |-> label, box_2d |-> box_2d]

\* The whole component: the loop with overlapping fetches and the ROI editor.
MaxFrames == 2
MaxPending == 2

Inputs ==
  [polygons |-> {SquareRoi},
   steps |-> {200, 5000},
   batches |-> {<<>>, <<Det("car", BoxA)>>, <<Det("car", BoxB)>>},
   draws |-> {1},
   maxFrames |-> MaxFrames,
   maxPending |-> MaxPending]

Next == LoopNext(Inputs) \/ RoiNext(Inputs)

Spec == Init /\ [][Next]_vars

\* The tracker under richer batches: two labels, two detections at once, a
\* detection exactly MATCH_THRESHOLD away, one far away; one fetch at a time.
TrackerFrames == 2

TrackerInputs ==
  [steps |-> {1000},
   batches |-> Batches({"car", "person"}, {BoxA, BoxB}, 2)
                 \cup {<<Det("car", BoxE)>>, <<Det("car", BoxF)>>},
   draws |-> {1},
   maxFrames |-> TrackerFrames,
   maxPending |-> 1]

TrackerNext == LoopNext(TrackerInputs)

SpecTracker == Init /\ [][TrackerNext]_vars

\* One car crossing the square ROI, which the user has drawn before starting
\* (editRoi and four clicks lead from Init to InitScenario); ticks one, four or
\* five seconds apart.
ScenarioFrames == 3

ScenarioInputs ==
  [steps |-> {1000, 4000, 5001},
   batches |-> {<<>>, <<Det("car", BoxA)>>, <<Det("car", BoxB)>>,
                <<Det("car", BoxM)>>, <<Det("car", BoxF)>>},
   draws |-> {1},
   maxFrames |-> ScenarioFrames,
   maxPending |-> 1]

InitScenario ==
  /\ isProcessing = FALSE
  /\ stats = [fps |-> 0, totalObjects |-> 0, roiEntered |-> 0, roiExited |-> 0]
  /\ isDrawingRoi = FALSE
  /\ roiPoints = SquareRoi
  /\ tracks = <<>>
  /\ tracksRef = <<>>
  /\ roiCounts = [entered |-> 0, exited |-> 0]
  /\ roiCountsRef = [entered |-> 0, exited |-> 0]
  /\ lastProcessTime = 0
  /\ frameCount = 0
  /\ nextId = 1
  /\ now = 0
  /\ pending = <<>>
  /\ lastTick = <<>>
  /\ missed = <<>>

ScenarioNext == LoopNext(ScenarioInputs)

SpecScenario == InitScenario /\ [][ScenarioNext]_vars

\* A long run at the fastest tick rate: a frame every 201 ms, each one
\* fetching, each answered before the next frame and rendered at once.  The
\* scene is fixed: one car seen alternately at A and at B, and
\* not seen at all between 2000 ms and 3400 ms.
SteadyFrames == 39

SteadyScene(timestamp) ==
  IF 2000 < timestamp /\ timestamp < 3400 THEN <<>>
  ELSE IF (timestamp \div 201) % 2 = 1 THEN <<Det("car", BoxA)>>
  ELSE <<Det("car", BoxB)>>

SteadyNext ==
  \/ toggleProcessing
  \/ processFrame(201, SteadyFrames, 1)
  \/ \E i \in 1..Len(pending) :
       onDetections(i, SteadyScene(pending[i].now), <<1>>, TRUE)

SpecSteady == Init /\ [][SteadyNext]_vars

\* The detector's output taken as it comes (JSON.parse of the response, with
\* no check of the boxes): a box of three numbers, a box with ymin > ymax
\* (centred where A is), and a well-formed one; two random colours.
DetectorFrames == 2

BoxShort == <<0, 0, 100>>
BoxInverted == <<100, 0, 0, 100>>

DetectorInputs ==
  [steps |-> {1000},
   batches |-> Batches({"car"}, {BoxA, BoxShort, BoxInverted}, 2),
   draws |-> {1, 2},
   maxFrames |-> DetectorFrames,
   maxPending |-> 1]

DetectorNext == LoopNext(DetectorInputs)

SpecDetector == Init /\ [][DetectorNext]_vars

\* The ROI test on polygons of several shapes, drawn before starting: the
\* square from two of its vertices, a triangle, and a C-shaped polygon whose
\* notch holds M; one car seen at A, B, M, F or V, whose centre (50, 100) is
\* level with two vertices of the square.
PolygonFrames == 2

BoxV == <<50, 0, 150, 100>>

SquareFromThird == <<Pt(900, 900), Pt(100, 900), Pt(100, 100), Pt(900, 100)>>
TriangleRoi == <<Pt(100, 100), Pt(900, 100), Pt(500, 900)>>
NotchedRoi == <<Pt(100, 100), Pt(900, 100), Pt(900, 900), Pt(100, 900),
                Pt(100, 600), Pt(600, 600), Pt(600, 400), Pt(100, 400)>>

Polygons == {SquareRoi, SquareFromThird, TriangleRoi, NotchedRoi}

PolygonInputs ==
  [steps |-> {1000},
   batches |-> {<<>>, <<Det("car", BoxA)>>, <<Det("car", BoxB)>>, <<Det("car", BoxM)>>,
                <<Det("car", BoxF)>>, <<Det("car", BoxV)>>},
   draws |-> {1},
   maxFrames |-> PolygonFrames,
   maxPending |-> 1]

InitPolygon ==
  /\ isProcessing = FALSE
  /\ stats = [fps |-> 0, totalObjects |-> 0, roiEntered |-> 0, roiExited |-> 0]
  /\ isDrawingRoi = FALSE
  /\ roiPoints \in Polygons
  /\ tracks = <<>>
  /\ tracksRef = <<>>
  /\ roiCounts = [entered |-> 0, exited |-> 0]
  /\ roiCountsRef = [entered |-> 0, exited |-> 0]
  /\ lastProcessTime = 0
  /\ frameCount = 0
  /\ nextId = 1
  /\ now = 0
  /\ pending = <<>>
  /\ lastTick = <<>>
  /\ missed = <<>>

PolygonNext == LoopNext(PolygonInputs)

SpecPolygon == InitPolygon /\ [][PolygonNext]_vars

\* ------------------------------------------------------------------ claims

Ids(ts) == {ts[k].id : k \in 1..Len(ts)}

DistinctIds(ts) == \A k, m \in 1..Len(ts) : k # m => ts[k].id # ts[m].id

\* The last tick's record, and the ids it matched.
Last == lastTick[1]
MatchedIds == {Last.matches[m].id : m \in 1..Len(Last.matches)}

\* C1: no two tracks of a snapshot share an id; every id in a snapshot has been
\* issued (is below nextId); nextId never goes down; and an id that a step adds
\* to the snapshot, unless it comes from the track set the tick was given, is
\* at least nextId, so above every id issued before, retired or not.
C1_UniqueIds ==
  [][/\ DistinctIds(tracks')
     /\ \A id \in Ids(tracks') : id < nextId'
     /\ nextId' >= nextId
     /\ \A id \in Ids(tracks') \ (Ids(tracks) \cup Ids(tracksRef)) : id >= nextId]_vars

\* A tick has retired track 1 and created track 2.
C1_Witness ==
  /\ lastTick # <<>>
  /\ 1 \in Ids(Last.before)
  /\ Ids(tracks) = {2}
  /\ Last.spawned # <<>>

TrackOf(ts, id) == ts[CHOOSE k \in 1..Len(ts) : ts[k].id = id]

\* C3: every trajectory of the snapshot holds at most 30 points, and a track
\* matched while it held 30 has lost its oldest point and gained, as its last
\* point, the centre of the detection it was matched to.
C3_TrajectoryBound ==
  /\ \A k \in 1..Len(tracks) : Len(tracks[k].trajectory) <= 30
  /\ lastTick # <<>> =>
       \A m \in 1..Len(Last.matches) :
         LET old == Last.before[Last.matches[m].track]
             box == toBox(Last.detections[Last.matches[m].detection].box_2d)
         IN Len(old.trajectory) = 30 =>
              TrackOf(tracks, old.id).trajectory =
                Tail(old.trajectory) \o <<[x |-> box.xmin + box.xmax,
                                           y |-> box.ymin + box.ymax]>>

\* A track holding 30 points has just been matched.
C3_Witness ==
  /\ lastTick # <<>>
  /\ \E m \in 1..Len(Last.matches) :
       Len(Last.before[Last.matches[m].track].trajectory) = 30

\* C4 (as claimed): a track unmatched for more than 5 ticks in a row is not in
\* the snapshot, and an id once absent from the snapshot stays absent.
C4_RetiredAfterFiveMisses ==
  [][/\ \A id \in DOMAIN missed' : missed'[id] > 5 => id \notin Ids(tracks')
     /\ \A id \in 1..(nextId - 1) :
          id \notin Ids(tracks) => id \notin Ids(tracks')]_vars

\* C5: a track the last tick left unmatched is in the snapshot, unchanged, if
\* timestamp - lastSeen < 5 * 1000, and is not in it otherwise.
C5_DropoutWindow ==
  lastTick # <<>> =>
    \A k \in 1..Len(Last.before) :
      LET t == Last.before[k]
      IN t.id \notin MatchedIds =>
           IF Last.timestamp - t.lastSeen < 5 * 1000
             THEN \E j \in 1..Len(tracks) : tracks[j] = t
             ELSE t.id \notin Ids(tracks)

\* A track last seen at 1000 was unmatched at 6001 and is gone.
C5_Witness ==
  /\ lastTick # <<>>
  /\ Last.timestamp = 6001
  /\ \E k \in 1..Len(Last.before) :
       /\ Last.before[k].lastSeen = 1000
       /\ Last.before[k].id \notin MatchedIds
       /\ Last.before[k].id \notin Ids(tracks)

\* A box centre and a detection's centre, in half units.
Centre(box) == [x |-> box.xmin + box.xmax, y |-> box.ymin + box.ymax]
DetCentre(d) == [x |-> d.box_2d[2] + d.box_2d[4], y |-> d.box_2d[1] + d.box_2d[3]]
DistSq(p, q) == (p.x - q.x) * (p.x - q.x) + (p.y - q.y) * (p.y - q.y)

\* The last tick ran on exactly one track, centred at `from`, and was given
\* exactly one detection, of that track's label, centred at `to`, with the
\* square ROI.
OneTrackMoves(from, to) ==
  /\ lastTick # <<>>
  /\ Last.polygon = SquareRoi
  /\ Len(Last.before) = 1
  /\ Centre(Last.before[1].box) = from
  /\ Len(Last.detections) = 1
  /\ Last.detections[1].label = Last.before[1].label
  /\ DetCentre(Last.detections[1]) = to

CountersAre(e, x) ==
  /\ roiCountsRef = [entered |-> e, exited |-> x]
  /\ roiCounts = [entered |-> e, exited |-> x]
  /\ stats.roiEntered = e
  /\ stats.roiExited = x

\* C6 (as claimed): the tick that takes the track from (50, 50) to (500, 500)
\* counts one entry, the tick that takes it from (500, 500) to (950, 950) counts
\* one exit, and after these three ticks the counters are {1, 1}.
C6_AsClaimed ==
  /\ OneTrackMoves(Pt(50, 50), Pt(500, 500)) => Last.entered = 1 /\ Last.exited = 0
  /\ OneTrackMoves(Pt(500, 500), Pt(950, 950)) => Last.entered = 0 /\ Last.exited = 1
  /\ ( /\ OneTrackMoves(Pt(500, 500), Pt(950, 950))
       /\ Last.count = 3
       /\ Last.before[1].trajectory = <<Pt(50, 50), Pt(500, 500)>> ) => CountersAre(1, 1)

\* C6 (amended): the same with steps shorter than the match threshold, from
\* (50, 50) to (150, 140) and back to (50, 50); the track is the one updated.
C6_Crossing ==
  /\ OneTrackMoves(Pt(50, 50), Pt(150, 140)) =>
       /\ Last.entered = 1 /\ Last.exited = 0
       /\ Ids(tracks) = Ids(Last.before)
       /\ Centre(tracks[1].box) = Pt(150, 140)
  /\ OneTrackMoves(Pt(150, 140), Pt(50, 50)) =>
       /\ Last.entered = 0 /\ Last.exited = 1
       /\ Ids(tracks) = Ids(Last.before)
       /\ Centre(tracks[1].box) = Pt(50, 50)
  /\ ( /\ OneTrackMoves(Pt(150, 140), Pt(50, 50))
       /\ Last.count = 3
       /\ Last.before[1].trajectory = <<Pt(50, 50), Pt(150, 140)>> ) => CountersAre(1, 1)

\* The third tick has brought the track back out.
C6_Witness ==
  /\ OneTrackMoves(Pt(150, 140), Pt(50, 50))
  /\ Last.count = 3
  /\ Last.before[1].trajectory = <<Pt(50, 50), Pt(150, 140)>>
  /\ tracks[1].trajectory = <<Pt(50, 50), Pt(150, 140), Pt(50, 50)>>

\* The detection the last tick matched to the k-th track it was given, 0 if none.
MatchOf(k) ==
  IF \E m \in 1..Len(Last.matches) : Last.matches[m].track = k
    THEN Last.matches[CHOOSE m \in 1..Len(Last.matches) :
                        Last.matches[m].track = k].detection
    ELSE 0

\* The detections still unmatched when the k-th track is processed that have
\* its label and lie less than 150 from it.
Candidates(k) ==
  {j \in (1..Len(Last.detections)) \ {MatchOf(m) : m \in 1..(k - 1)} :
     /\ Last.detections[j].label = Last.before[k].label
     /\ DistSq(Centre(Last.before[k].box), DetCentre(Last.detections[j]))
          < (2 * 150) * (2 * 150)}

\* C7: each track is matched to a candidate at minimum distance, or to nothing
\* if it has no candidate; the matched detection's box becomes the track's box,
\* and every detection left over is in the snapshot as a track with a new id.
C7_NearestMatch ==
  lastTick # <<>> =>
    /\ \A k \in 1..Len(Last.before) :
         IF Candidates(k) = {}
           THEN MatchOf(k) = 0
           ELSE /\ MatchOf(k) \in Candidates(k)
                /\ \A j \in Candidates(k) :
                     DistSq(Centre(Last.before[k].box),
                            DetCentre(Last.detections[MatchOf(k)]))
                       <= DistSq(Centre(Last.before[k].box),
                                 DetCentre(Last.detections[j]))
                /\ TrackOf(tracks, Last.before[k].id).box
                     = toBox(Last.detections[MatchOf(k)].box_2d)
    /\ \A j \in (1..Len(Last.detections)) \ {MatchOf(k) : k \in 1..Len(Last.before)} :
         \E n \in 1..Len(tracks) :
           /\ tracks[n].id \notin Ids(Last.before)
           /\ tracks[n].id >= Last.nextId
           /\ tracks[n].label = Last.detections[j].label
           /\ tracks[n].box = toBox(Last.detections[j].box_2d)

\* One track, two detections of its label both within the threshold, the
\* nearer one second in the batch: it is matched, the other is a new track.
C7_Witness ==
  /\ lastTick # <<>>
  /\ Len(Last.before) = 1
  /\ Candidates(1) = {1, 2}
  /\ DistSq(Centre(Last.before[1].box), DetCentre(Last.detections[2]))
       < DistSq(Centre(Last.before[1].box), DetCentre(Last.detections[1]))
  /\ MatchOf(1) = 2
  /\ Len(tracks) = 2
  /\ tracks[2].id \notin Ids(Last.before)

Range(f) == {f[k] : k \in DOMAIN f}

\* C8: a step keeps the label of every id it keeps (an id comes into a snapshot
\* from the previous snapshot, from the set the tick was given, or new: C1);
\* and a track that a tick changed has taken the box of a detection of its own
\* label, so a detection of another label has changed nothing of it.
C8_LabelFixed ==
  [][/\ \A t \in Range(tracks'), old \in Range(tracks) \cup Range(tracksRef) :
          old.id = t.id => old.label = t.label
     /\ lastTick' # lastTick =>
          \A old \in Range(lastTick'[1].before), t \in Range(tracks') :
            (old.id = t.id /\ t # old) =>
              \E d \in Range(lastTick'[1].detections) :
                /\ d.label = old.label
                /\ t.box = toBox(d.box_2d)
                /\ t.lastSeen = lastTick'[1].timestamp]_vars

\* A detection of another label lay on a track's own centre, and the track is
\* in the snapshot as it was.
C8_Witness ==
  /\ lastTick # <<>>
  /\ \E old \in Range(Last.before), d \in Range(Last.detections) :
       /\ d.label # old.label
       /\ DetCentre(d) = Centre(old.box)
       /\ old \in Range(tracks)

\* C9: a tick whose ROI has fewer than 3 points counts nothing and leaves the
\* counters as they were, and the snapshot it publishes is what updateTracks
\* returns for the track set, detections and timestamp it was given.
C9_NoRoiNoEvents ==
  [][(lastTick' # lastTick /\ Len(lastTick'[1].polygon) < 3) =>
       /\ lastTick'[1].entered = 0
       /\ lastTick'[1].exited = 0
       /\ roiCountsRef' = roiCountsRef
       /\ roiCounts' = roiCounts
       /\ stats'.roiEntered = stats.roiEntered
       /\ stats'.roiExited = stats.roiExited
       /\ tracks' = updateTracks(tracksRef, lastTick'[1].detections,
                                 lastTick'[1].timestamp, nextId,
                                 lastTick'[1].rnd).updatedTracks
       /\ stats'.totalObjects = Len(tracks')]_vars

\* With two ROI points drawn, a tick moved a track from outside the square to
\* inside it and counted nothing.
C9_Witness ==
  /\ lastTick # <<>>
  /\ Len(Last.polygon) = 2
  /\ Len(Last.before) = 1
  /\ Centre(Last.before[1].box) = Pt(50, 50)
  /\ Len(tracks) = 1
  /\ Centre(tracks[1].box) = Pt(150, 140)
  /\ tracks[1].id = Last.before[1].id
  /\ roiCountsRef = [entered |-> 0, exited |-> 0]

\* C10 (as claimed): at most one detection fetch is outstanding.
C10_OneFetchOutstanding == Len(pending) <= 1

\* C11 (as claimed): each tick's timestamp is at least the timestamp of the
\* tick run before it.
C11_TimestampsNonDecreasing ==
  [][(lastTick # <<>> /\ lastTick' # lastTick) =>
       lastTick'[1].timestamp >= lastTick[1].timestamp]_vars

\* A batch with a box that is not four numbers.
InvalidShape(detections) ==
  \E j \in 1..Len(detections) :
    \/ Len(detections[j].box_2d) # 4
    \/ \E i \in 1..Len(detections[j].box_2d) : detections[j].box_2d[i] < 0

\* C12 (as claimed): a tick given a batch of invalid shape leaves the track
\* set, the id allocator and the counters as they were.
C12_InvalidBatchRejected ==
  (lastTick # <<>> /\ InvalidShape(Last.detections)) =>
    /\ tracks = Last.before
    /\ nextId = Last.nextId
    /\ Last.entered = 0
    /\ Last.exited = 0

\* C13 (as claimed): every box of the snapshot whose coordinates are numbers
\* has ymin <= ymax and xmin <= xmax.
C13_BoxesOrdered ==
  \A k \in 1..Len(tracks) :
    LET box == tracks[k].box
    IN (box.ymin >= 0 /\ box.xmin >= 0 /\ box.ymax >= 0 /\ box.xmax >= 0) =>
         (box.ymin <= box.ymax /\ box.xmin <= box.xmax)

\* C14: a tick given no detections issues no id, leaves the counters as they
\* were, publishes only tracks of the set it was given, each exactly as it
\* was, and leaves out only tracks whose dropout window has elapsed.
C14_EmptyBatch ==
  [][(lastTick' # lastTick /\ lastTick'[1].detections = <<>>) =>
       /\ nextId' = nextId
       /\ roiCountsRef' = roiCountsRef
       /\ roiCounts' = roiCounts
       /\ stats'.roiEntered = stats.roiEntered
       /\ stats'.roiExited = stats.roiExited
       /\ \A t \in Range(tracks') : t \in Range(tracksRef)
       /\ \A t \in Range(tracksRef) :
            t \notin Range(tracks') => lastTick'[1].timestamp - t.lastSeen >= 5 * 1000]_vars

\* A tick given no detections has retired a track that lay inside the ROI,
\* and another has kept one.
C14_Witness ==
  /\ lastTick # <<>>
  /\ Last.detections = <<>>
  /\ Len(Last.before) = 2
  /\ Len(tracks) = 1
  /\ \E t \in Range(Last.before) :
       /\ t \notin Range(tracks)
       /\ t.box = toBox(BoxM)
  /\ roiCountsRef = [entered |-> 0, exited |-> 0]

\* C15 (as claimed): the snapshot the last tick published is the one the tick
\* yields from the same track set, detections, timestamp, polygon and id
\* allocator on any other run, whatever Math.random returns there.
C15_Deterministic ==
  lastTick # <<>> =>
    \A rnd \in [DOMAIN Last.rnd -> DOMAIN colors] :
      tick(Last.before, Last.detections, Last.timestamp, Last.polygon,
           [entered |-> 0, exited |-> 0], Last.nextId, rnd).updatedTracks = tracks

\* C16 (as claimed): the track set a tick is given is the snapshot the tick
\* before it published (the empty set for the first tick).
C16_LatestTrackSet ==
  [][lastTick' # lastTick => lastTick'[1].before = tracks]_vars

\* Strictly inside the square ROI, by its sides.
InSquare(box) ==
  /\ 2 * 100 < box.xmin + box.xmax /\ box.xmin + box.xmax < 2 * 900
  /\ 2 * 100 < box.ymin + box.ymax /\ box.ymin + box.ymax < 2 * 900

\* The ids in both the set the last tick was given and the snapshot it
\* published that went from outside the square to inside it, and from inside
\* to outside.
Entering ==
  {id \in Ids(Last.before) \cap Ids(tracks) :
     ~InSquare(TrackOf(Last.before, id).box) /\ InSquare(TrackOf(tracks, id).box)}
Exiting ==
  {id \in Ids(Last.before) \cap Ids(tracks) :
     InSquare(TrackOf(Last.before, id).box) /\ ~InSquare(TrackOf(tracks, id).box)}

\* C17: with the square ROI, a tick counts one entry for each id of both sets
\* that was outside and is inside, one exit for each that was inside and is
\* outside, and nothing for any other track, created or retired.
C17_EventsOfSurvivors ==
  (lastTick # <<>> /\ Last.polygon = SquareRoi) =>
    /\ Last.entered = Cardinality(Entering)
    /\ Last.exited = Cardinality(Exiting)

\* One tick retired a track that lay inside the ROI and created a track inside
\* the ROI, and counted nothing.
C17_Witness ==
  /\ lastTick # <<>>
  /\ Last.polygon = SquareRoi
  /\ \E t \in Range(Last.before) : InSquare(t.box) /\ t.id \notin Ids(tracks)
  /\ \E t \in Range(tracks) : InSquare(t.box) /\ t.id \notin Ids(Last.before)
  /\ Last.entered = 0
  /\ Last.exited = 0

\* What a match makes of the track `old`, from the detection d at `timestamp`.
Updated(old, d, timestamp) ==
  [id |-> old.id,
   label |-> old.label,
   color |-> old.color,
   box |-> [ymin |-> d.box_2d[1], xmin |-> d.box_2d[2],
            ymax |-> d.box_2d[3], xmax |-> d.box_2d[4]],
   lastSeen |-> timestamp,
   trajectory |-> IF Len(old.trajectory) + 1 > 30
                    THEN Tail(old.trajectory) \o <<DetCentre(d)>>
                    ELSE old.trajectory \o <<DetCentre(d)>>]

\* C18: a track the last tick matched is in the snapshot with its id, label
\* and color, the detection's box, lastSeen equal to the timestamp and its
\* trajectory with the detection's centre appended (the oldest point dropped if
\* that makes more than 30); an unmatched track still in the snapshot is there with
\* every field as it was.
C18_TrackUpdate ==
  lastTick # <<>> =>
    \A k \in 1..Len(Last.before) :
      LET old == Last.before[k]
      IN IF MatchOf(k) # 0
           THEN \E n \in 1..Len(tracks) :
                  tracks[n] = Updated(old, Last.detections[MatchOf(k)], Last.timestamp)
           ELSE old.id \in Ids(tracks) => TrackOf(tracks, old.id) = old

\* A track holding 29 points has been matched and holds 30, its first point
\* still the first.
C18_Witness ==
  /\ lastTick # <<>>
  /\ Len(Last.before) = 1
  /\ MatchOf(1) = 1
  /\ Len(Last.before[1].trajectory) = 29
  /\ Len(tracks[1].trajectory) = 30
  /\ tracks[1].trajectory[1] = Last.before[1].trajectory[1]
  /\ tracks[1].lastSeen = Last.timestamp

\* In the last tick: the detections matched to a track, the detections left
\* over, the places in the snapshot of the tracks that were not in the set the
\* tick was given, and the tracks of that set left unmatched and kept.
MatchedDetections == {MatchOf(k) : k \in 1..Len(Last.before)} \ {0}
FreeDetections == (1..Len(Last.detections)) \ MatchedDetections
NewPlaces == {n \in 1..Len(tracks) : tracks[n].id \notin Ids(Last.before)}
Retained ==
  {k \in 1..Len(Last.before) : MatchOf(k) = 0 /\ Last.before[k].id \in Ids(tracks)}

\* C19: no two matches of a tick share a track or a detection; the detections
\* left over correspond one to one to the new tracks of the snapshot, each new
\* track having the detection's label and box, the detection's centre as its
\* only trajectory point and lastSeen equal to the timestamp; and the snapshot
\* holds as many tracks as matches, kept unmatched tracks and left-over
\* detections together.
C19_OneToOne ==
  lastTick # <<>> =>
    /\ \A m, n \in 1..Len(Last.matches) :
         m # n => /\ Last.matches[m].track # Last.matches[n].track
                  /\ Last.matches[m].detection # Last.matches[n].detection
    /\ \E f \in [FreeDetections -> NewPlaces] :
         /\ \A n \in NewPlaces : \E j \in FreeDetections : f[j] = n
         /\ \A i, j \in FreeDetections : i # j => f[i] # f[j]
         /\ \A j \in FreeDetections :
              /\ tracks[f[j]].label = Last.detections[j].label
              /\ tracks[f[j]].box = toBox(Last.detections[j].box_2d)
              /\ tracks[f[j]].trajectory = <<DetCentre(Last.detections[j])>>
              /\ tracks[f[j]].lastSeen = Last.timestamp
    /\ Len(tracks) = Len(Last.matches) + Cardinality(Retained)
                       + Cardinality(FreeDetections)
    /\ DistinctIds(tracks)

\* Of two tracks and two detections, one pair was matched, the other track
\* was kept unmatched and the other detection became a third track.
C19_Witness ==
  /\ lastTick # <<>>
  /\ Len(Last.before) = 2
  /\ Len(Last.detections) = 2
  /\ Len(Last.matches) = 1
  /\ Cardinality(Retained) = 1
  /\ Cardinality(FreeDetections) = 1
  /\ Len(tracks) = 3

\* The squared distance from the k-th track the last tick was given to its
\* j-th detection.
TrackToDetection(k, j) ==
  DistSq(Centre(Last.before[k].box), DetCentre(Last.detections[j]))

\* C20: a detection that a track could claim when its turn came (Candidates)
\* goes to a track later in the list only if the earlier track took another
\* detection at least as near to it; a track with a single candidate takes it;
\* and no track takes a detection that an earlier track took.
C20_FirstTrackWins ==
  lastTick # <<>> =>
    \A k \in 1..Len(Last.before) :
      /\ \A j \in Candidates(k), later \in (k + 1)..Len(Last.before) :
           MatchOf(later) = j =>
             /\ MatchOf(k) \notin {0, j}
             /\ TrackToDetection(k, MatchOf(k)) <= TrackToDetection(k, j)
      /\ \A j \in Candidates(k) : Candidates(k) = {j} => MatchOf(k) = j
      /\ MatchOf(k) # 0 => \A earlier \in 1..(k - 1) : MatchOf(earlier) # MatchOf(k)

\* Two tracks of one label and one detection within the threshold of both,
\* strictly nearer to the second track: the first track has it, the second is
\* unmatched.
C20_Witness ==
  /\ lastTick # <<>>
  /\ Len(Last.before) = 2
  /\ Len(Last.detections) = 1
  /\ Last.before[1].label = Last.before[2].label
  /\ Last.detections[1].label = Last.before[2].label
  /\ TrackToDetection(2, 1) < TrackToDetection(1, 1)
  /\ TrackToDetection(1, 1) < (2 * 150) * (2 * 150)
  /\ MatchOf(1) = 1
  /\ MatchOf(2) = 0
  /\ tracks[1].box = toBox(Last.detections[1].box_2d)

\* The ray from `point` towards +x crosses the edge between a and b: the edge
\* reaches from the ray's line or below it (lo) to above it (hi), and meets
\* the line at an x beyond point.x.
Crossed(point, a, b) ==
  LET lo == IF a.y <= b.y THEN a ELSE b
      hi == IF a.y <= b.y THEN b ELSE a
  IN /\ lo.y <= point.y
     /\ point.y < hi.y
     /\ (point.x - lo.x) * (hi.y - lo.y) < (hi.x - lo.x) * (point.y - lo.y)

\* The edges of the closed loop, each by the index of the vertex it starts
\* from; the edge from the last vertex ends at the first.
EdgesCrossed(point, polygon) ==
  {k \in 1..Len(polygon) :
     Crossed(point, polygon[k], polygon[(k % Len(polygon)) + 1])}

\* The vertex list started r places later.
Rotated(polygon, r) ==
  [k \in 1..Len(polygon) |-> polygon[((k + r - 1) % Len(polygon)) + 1]]

\* The centres the last tick tested against its polygon.
CentresTested ==
  {getBoxCenter(t.box) : t \in Range(Last.before) \cup Range(tracks)}

\* C21: for a polygon of at least 3 vertices and every centre tested,
\* isPointInPolygon is the parity of the number of edges of the closed loop
\* that the ray towards +x crosses, and is the same for every cyclic rotation
\* of the vertex list; for the square it is true at (500, 500) and false at
\* (50, 50) and (950, 950).
C21_EvenOdd ==
  /\ isPointInPolygon(Pt(500, 500), SquareRoi)
  /\ ~isPointInPolygon(Pt(50, 50), SquareRoi)
  /\ ~isPointInPolygon(Pt(950, 950), SquareRoi)
  /\ (lastTick # <<>> /\ Len(Last.polygon) >= 3) =>
       \A c \in CentresTested :
         /\ isPointInPolygon(c, Last.polygon)
               = (Cardinality(EdgesCrossed(c, Last.polygon)) % 2 = 1)
         /\ \A r \in 1..Len(Last.polygon) :
              isPointInPolygon(c, Rotated(Last.polygon, r))
                = isPointInPolygon(c, Last.polygon)

\* A tick with the C-shaped polygon moved a track from B, inside (one edge
\* crossed), to V, outside (two edges crossed, one of them the edge from the
\* last vertex to the first), and counted the exit.
C21_Witness ==
  /\ lastTick # <<>>
  /\ Last.polygon = NotchedRoi
  /\ Len(Last.before) = 1
  /\ Len(tracks) = 1
  /\ getBoxCenter(Last.before[1].box) = Pt(150, 140)
  /\ getBoxCenter(tracks[1].box) = Pt(50, 100)
  /\ EdgesCrossed(Pt(150, 140), NotchedRoi) = {2}
  /\ EdgesCrossed(Pt(50, 100), NotchedRoi) = {2, 8}
  /\ Last.exited = 1

\* The ids of a track list, in list order.
IdsInOrder(ts) == [k \in 1..Len(ts) |-> ts[k].id]

\* The subsequence of ids that belong to S.
RECURSIVE IdsWithin(_, _)
IdsWithin(ids, S) ==
  IF ids = <<>> THEN <<>>
  ELSE IF Head(ids) \in S THEN <<Head(ids)>> \o IdsWithin(Tail(ids), S)
  ELSE IdsWithin(Tail(ids), S)

Increasing(ids) == \A k \in 1..(Len(ids) - 1) : ids[k] < ids[k + 1]

\* How many tracks of the snapshot come from the set the tick was given.
Survivors == Cardinality(Ids(tracks) \cap Ids(Last.before))

\* C22: every snapshot lists its tracks in strictly increasing id order, and
\* so does every track set a tick is given; after a tick the tracks that come
\* from the set it was given are listed first, in the order they had there,
\* and the new tracks follow, one for each detection left unmatched, in the
\* order of the detections.
C22_CreationOrder ==
  /\ Increasing(IdsInOrder(tracks))
  /\ Increasing(IdsInOrder(tracksRef))
  /\ lastTick # <<>> =>
       /\ SubSeq(IdsInOrder(tracks), 1, Survivors)
            = IdsWithin(IdsInOrder(Last.before), Ids(tracks))
       /\ Len(tracks) = Survivors + Len(Last.spawned)
       /\ Increasing(Last.spawned)
       /\ \A n \in 1..Len(Last.spawned) :
            /\ tracks[Survivors + n].id = Last.nextId + n - 1
            /\ tracks[Survivors + n].label = Last.detections[Last.spawned[n]].label
            /\ tracks[Survivors + n].box = toBox(Last.detections[Last.spawned[n]].box_2d)

\* A tick given tracks 1 (a car) and 2 (a person) and two detections of a
\* person kept track 1 unmatched, matched track 2 with the second detection
\* and created track 3 for the first: the snapshot lists 1, 2, 3.
C22_Witness ==
  /\ lastTick # <<>>
  /\ IdsInOrder(Last.before) = <<1, 2>>
  /\ Len(Last.detections) = 2
  /\ MatchOf(1) = 0
  /\ MatchOf(2) = 2
  /\ Last.spawned = <<1>>
  /\ IdsInOrder(tracks) = <<1, 2, 3>>

\* The trajectory has a point and its newest point is the centre of the box.
EndsAtCentre(t) ==
  /\ Len(t.trajectory) >= 1
  /\ t.trajectory[Len(t.trajectory)] = Centre(t.box)

\* C23: in every snapshot, and in every track set a tick is given, each
\* track's trajectory is non-empty and its last point is the centroid of the
\* track's box: for a track just created, for one just matched (also when the
\* update evicted the oldest point) and for one retained unmatched.
C23_TrajectoryEndsAtBox ==
  /\ \A t \in Range(tracks) : EndsAtCentre(t)
  /\ \A t \in Range(tracksRef) : EndsAtCentre(t)

\* A matched update of a track that already had 30 points: the oldest was
\* evicted, the newest is the centre of the new box, which is not where the
\* track was before.
C23_Witness ==
  /\ lastTick # <<>>
  /\ Len(Last.before) = 1
  /\ Len(tracks) = 1
  /\ MatchOf(1) = 1
  /\ Len(Last.before[1].trajectory) = MAX_TRAJECTORY_LENGTH
  /\ Len(tracks[1].trajectory) = MAX_TRAJECTORY_LENGTH
  /\ tracks[1].trajectory[1] = Last.before[1].trajectory[2]
  /\ tracks[1].box # Last.before[1].box
  /\ tracks[1].trajectory[MAX_TRAJECTORY_LENGTH] = Centre(tracks[1].box)
  /\ tracks[1].trajectory[MAX_TRAJECTORY_LENGTH] = DetCentre(Last.detections[1])

\* C24: a step taken while analysis is stopped, and that leaves it stopped,
\* changes neither the track set, nor the cumulative counters, nor the stats
\* reported, nor nextId: a response to a fetch made before the stop applies no
\* tracker update after it.
C24_StoppedIsQuiet ==
  [][(~isProcessing /\ ~isProcessing') =>
       /\ tracks' = tracks
       /\ roiCountsRef' = roiCountsRef
       /\ roiCounts' = roiCounts
       /\ stats' = stats
       /\ nextId' = nextId]_vars

====
